---- MODULE Spec2Model ----
(***************************************************************************)
(* Model of classify_puzzles.py: process_pgn_file and get_maia_top_move.   *)
(*                                                                         *)
(* One run of process_pgn_file is a state machine: the engine is started,  *)
(* the input PGN file is opened, the loop body runs once per game record,  *)
(* the `finally` clause runs on every exit of the `try`, and the summary   *)
(* is printed when the function does not `return` early.                   *)
(*                                                                         *)
(* The environment (records of the input file, what engine.analyse         *)
(* answers, whether open()/write() of a batch file succeeds) is chosen     *)
(* nondeterministically at each step.  A puzzle is identified by its       *)
(* position in the input file (processed_puzzles_count when it is read).   *)
(* A batch file is modelled by the number of puzzles it holds; a write     *)
(* appends one puzzle at the end of the file and a failed write adds       *)
(* none.  The statements that follow the loop (finally, summary) are part  *)
(* of the step that leaves the loop.                                       *)
(***************************************************************************)
EXTENDS Integers, Sequences, FiniteSets, TLC

(* ---------------- bounds of the model ---------------- *)
\* number of game records in the input file
MaxRecords == 26
\* number of records of the input file that cannot be classified
MaxSkipped == 1
\* number of open()/write() calls on batch files that fail with IOError
MaxIOFailures == 1

(* ---------------- program constants ---------------- *)
PUZZLES_PER_BATCH == 25

None == "None"
\* f_easy / f_hard is None (batch files are numbered from 1)
NoFile == 0

\* the two output streams; __main__ passes two different file names, so the
\* batch files of the two streams never share a name
easy_puzzles_file == "easy"
hard_puzzles_file == "hard"
Streams == {easy_puzzles_file, hard_puzzles_file}

\* chess.Move values; the null move (0000) is the one falsy chess.Move
NullMove == "0000"
Moves == {"d8d6", "e2e4"}
EngineMoves == Moves \cup {NullMove}

\* `not x` of Python for the values the code tests: None, "" and the null
\* move are falsy
Falsy(x) == x \in {None, "", NullMove}

\* headers.get("FEN"): the tag is absent or holds a position
FenValues == {None, "fen"}
\* headers.get("SetUp")
SetUpValues == {None, "1"}
\* list(game.mainline_moves())
Mainlines == {<<>>, <<"d8d6", "e2e4">>}
\* what engine.analyse (or chess.Board(fen)) does: raises, or returns an
\* info without "pv", or an info whose "pv" is the given list of moves
AnalysisOutcomes ==
    {[kind |-> "raise", pv |-> <<>>], [kind |-> "no_pv", pv |-> <<>>]}
    \cup {[kind |-> "pv", pv |-> p] :
             p \in {<<>>, <<NullMove>>, <<"d8d6">>, <<"e2e4", "d8d6">>}}

VARIABLES
    pc,                         \* position in process_pgn_file
    exit_path,                  \* the way the function returned ("none" before)
    engine,                     \* None, "running" or "quit"
    pgn_file,                   \* "unopened", "open" or "closed"
    processed_puzzles_count,
    error_puzzles_count,
    classified,                 \* len(easy_puzzles_pgn_strings), len(hard_...)
    batch_num,                  \* easy_batch_num, hard_batch_num
    in_current_batch,           \* easy_/hard_puzzles_in_current_batch
    f,                          \* f_easy, f_hard: NoFile or the number of the batch file
    files,                      \* per stream: batch number -> puzzles in the file
    open_handles,               \* per stream: batch files whose handle is open
    cur,                        \* the record of the current iteration
    io_failures,                \* failed open()/write() calls so far
    summary                     \* the summaries printed: <<>> or one record

vars == <<pc, exit_path, engine, pgn_file, processed_puzzles_count,
          error_puzzles_count, classified, batch_num, in_current_batch, f,
          files, open_handles, cur, io_failures, summary>>

\* the locals of one iteration: the FEN tag, mainline_moves[0], what the
\* analysis did, the value of maia_top_move, the branch taken, the number of
\* engine.analyse calls, and what open() and write() did if they were called
\* (a local the iteration did not assign reads None / "none")
NoRecord == [fen |-> None, solution |-> None, info |-> "none",
             maia_top_move |-> None, result |-> "none", queries |-> 0,
             open |-> "none", write |-> "none"]

Init ==
    /\ pc = "init"
    /\ exit_path = "none"
    /\ engine = None
    /\ pgn_file = "unopened"
    /\ processed_puzzles_count = 0
    /\ error_puzzles_count = 0
    /\ classified = [s \in Streams |-> 0]
    /\ batch_num = [s \in Streams |-> 0]
    /\ in_current_batch = [s \in Streams |-> 0]
    /\ f = [s \in Streams |-> NoFile]
    /\ files = [s \in Streams |-> <<>>]
    /\ open_handles = [s \in Streams |-> {}]
    /\ cur = NoRecord
    /\ io_failures = 0
    /\ summary = <<>>

(* ---------------- get_maia_top_move ---------------- *)
\* None when chess.Board/engine.analyse raises, when the info has no "pv"
\* or an empty one; otherwise info["pv"][0]
get_maia_top_move(a) ==
    IF a.kind = "raise" THEN None
    ELSE IF a.kind = "pv" /\ a.pv # <<>> THEN a.pv[1]
    ELSE None

(* ---------------- the code of one classification branch ---------------- *)
\* (faulty variants of the operators below: slips the properties must detect)
NeedNewBatchGt(fh, n) == fh = NoFile \/ n > PUZZLES_PER_BATCH
NeedNewBatchEarly(fh, n) == fh = NoFile \/ n >= PUZZLES_PER_BATCH - 1
NextBatchNumStuck(n) == IF n = 0 THEN 1 ELSE n
SameMoveNegated(solution, top) == solution # top
WritePuzzleTwice(fs, k) == [fs EXCEPT ![k] = @ + 2]
CloseFinalForgotten(fh, hs) == hs

\* `if f_easy is None or easy_puzzles_in_current_batch >= PUZZLES_PER_BATCH`
NeedNewBatch(fh, n) == fh = NoFile \/ n >= PUZZLES_PER_BATCH

\* `easy_batch_num += 1`: the number of the batch file opened next
NextBatchNum(n) == n + 1

\* `solution_move_object == maia_top_move`
SameMove(solution, top) == solution = top

\* open(name, 'w') creates the file or truncates it
OpenForWrite(fs, k) == (k :> 0) @@ fs

\* f.write(current_pgn_string + "\n\n") appends one puzzle to the file
WritePuzzle(fs, k) == [fs EXCEPT ![k] = @ + 1]

\* The body of `if solution == maia_top_move:` after the append to the list
\* (and of the `else:` branch, which is the same code on the hard variables):
\* start a new batch file if needed, then write the puzzle.
\*   o_open : "ok" | "ioerror"          outcome of open() if it is called
\*   o_write: "ok" | "ioerror" | "exc"  outcome of write() if it is called
\* The result holds the new values of the stream's variables, what open()
\* and write() did, and whether an exception other than IOError was raised.
WriteToBatch(s, o_open, o_write) ==
    LET rotate  == NeedNewBatch(f[s], in_current_batch[s])
        closed  == IF rotate /\ f[s] # NoFile
                   THEN open_handles[s] \ {f[s]} ELSE open_handles[s]
        num     == IF rotate THEN NextBatchNum(batch_num[s]) ELSE batch_num[s]
        opened  == rotate /\ o_open = "ok"
        fh      == IF rotate THEN (IF opened THEN num ELSE NoFile) ELSE f[s]
        fs1     == IF opened THEN OpenForWrite(files[s], num) ELSE files[s]
        hs      == IF opened THEN closed \cup {num} ELSE closed
        n1      == IF rotate THEN 0 ELSE in_current_batch[s]
        written == fh # NoFile /\ o_write = "ok"
    IN  [ batch_num |-> num,
          f         |-> fh,
          files     |-> IF written THEN WritePuzzle(fs1, fh) ELSE fs1,
          handles   |-> hs,
          in_batch  |-> IF written THEN n1 + 1 ELSE n1,
          open      |-> IF rotate THEN o_open ELSE "none",
          write     |-> IF fh # NoFile THEN o_write ELSE "none",
          raised    |-> fh # NoFile /\ o_write = "exc" ]

(* ---------------- the finally clause and the summary ---------------- *)
\* engine.quit() if engine; f_easy.close() if f_easy; f_hard.close() if f_hard
QuitEngine(e) == IF e # None THEN "quit" ELSE e
CloseFinal(fh, hs) == IF fh # NoFile THEN hs \ {fh} ELSE hs
FinallyHandles(fh, hs) == [s \in Streams |-> CloseFinal(fh[s], hs[s])]

\* the numbers the summary prints
PrintSummary(processed, total, batches, skipped) ==
    << [processed |-> processed, total |-> total, batches |-> batches,
        skipped |-> skipped] >>

(* ---------------- engine initialisation ---------------- *)
\* popen_uci and configure; either may raise EngineTerminatedError,
\* FileNotFoundError or another Exception, and each handler returns
InitErrors == {"EngineTerminatedError", "FileNotFoundError", "Exception"}

InitEngineOk ==
    /\ pc = "init"
    /\ engine' = "running"
    /\ pc' = "open"
    /\ UNCHANGED <<exit_path, pgn_file, processed_puzzles_count,
                   error_puzzles_count, classified, batch_num,
                   in_current_batch, f, files, open_handles, cur,
                   io_failures, summary>>

\* (faulty variant: the handlers of the initialisation errors do not return)
InitEngineFailsNoReturn ==
    /\ pc = "init"
    /\ exit_path' = "init_error"
    /\ engine' = "running"
    /\ pc' = "open"
    /\ UNCHANGED <<pgn_file, processed_puzzles_count, error_puzzles_count,
                   classified, batch_num, in_current_batch, f, files,
                   open_handles, cur, io_failures, summary>>

\* started = TRUE: popen_uci returned and configure raised
InitEngineFails ==
    /\ pc = "init"
    /\ \E started \in BOOLEAN, e \in InitErrors :
          /\ exit_path' = "init_error"
          /\ engine' = QuitEngine(IF started THEN "running" ELSE None)
    /\ pc' = "returned"
    /\ open_handles' = FinallyHandles(f, open_handles)
    /\ UNCHANGED <<pgn_file, processed_puzzles_count, error_puzzles_count,
                   classified, batch_num, in_current_batch, f, files, cur,
                   io_failures, summary>>

(* ---------------- opening the input file ---------------- *)
OpenInputOk ==
    /\ pc = "open"
    /\ pgn_file' = "open"
    /\ pc' = "loop"
    /\ UNCHANGED <<exit_path, engine, processed_puzzles_count,
                   error_puzzles_count, classified, batch_num,
                   in_current_batch, f, files, open_handles, cur,
                   io_failures, summary>>

\* `except FileNotFoundError: return` skips the summary;
\* `except Exception` falls through to it.  Both run the finally clause.
OpenInputFails ==
    /\ pc = "open"
    /\ \E e \in {"FileNotFoundError", "Exception"} :
          /\ exit_path' = IF e = "FileNotFoundError"
                          THEN "input_not_found" ELSE "summary"
          /\ summary' = IF e = "FileNotFoundError" THEN summary
                        ELSE PrintSummary(processed_puzzles_count, classified,
                                          batch_num, error_puzzles_count)
    /\ pc' = "returned"
    /\ engine' = QuitEngine(engine)
    /\ open_handles' = FinallyHandles(f, open_handles)
    /\ UNCHANGED <<pgn_file, processed_puzzles_count, error_puzzles_count,
                   classified, batch_num, in_current_batch, f, files, cur,
                   io_failures>>

(* ---------------- the loop ---------------- *)
\* chess.pgn.read_game returns None (end of file) or raises (for instance
\* UnicodeDecodeError): the loop and the `with` are left, finally runs and
\* the summary is printed
ReadGameEnds ==
    /\ pc = "loop"
    /\ \E how \in {"eof", "exception"} : exit_path' = "summary"
    /\ pgn_file' = "closed"
    /\ engine' = QuitEngine(engine)
    /\ open_handles' = FinallyHandles(f, open_handles)
    /\ summary' = PrintSummary(processed_puzzles_count, classified, batch_num,
                               error_puzzles_count)
    /\ pc' = "returned"
    /\ UNCHANGED <<processed_puzzles_count, error_puzzles_count, classified,
                   batch_num, in_current_batch, f, files, cur, io_failures>>

\* (faulty variant: `break` in place of `continue`)
SkipBreaks(rec) ==
    /\ error_puzzles_count < MaxSkipped
    /\ error_puzzles_count' = error_puzzles_count + 1
    /\ cur' = rec
    /\ pc' = "returned"
    /\ exit_path' = "summary"
    /\ UNCHANGED <<engine, pgn_file, classified, batch_num,
                   in_current_batch, f, files, open_handles, io_failures,
                   summary>>

\* `error_puzzles_count += 1; continue`
Skip(rec) ==
    /\ error_puzzles_count < MaxSkipped
    /\ error_puzzles_count' = error_puzzles_count + 1
    /\ cur' = rec
    /\ UNCHANGED <<pc, exit_path, engine, pgn_file, classified, batch_num,
                   in_current_batch, f, files, open_handles, io_failures,
                   summary>>

\* the easy or the hard branch: append to the list, write to the batch file
Classify(s, rec, o_open, o_write) ==
    LET w == WriteToBatch(s, o_open, o_write)
        ioerrors == (IF w.open = "ioerror" THEN 1 ELSE 0)
                    + (IF w.write = "ioerror" THEN 1 ELSE 0)
    IN
    \* the outcome of a call that is not made is not an input
    /\ (w.open = "none" => o_open = "ok")
    /\ (w.write = "none" => o_write = "ok")
    /\ io_failures + ioerrors <= MaxIOFailures
    /\ io_failures' = io_failures + ioerrors
    /\ UNCHANGED error_puzzles_count
    /\ cur' = [rec EXCEPT !.open = w.open, !.write = w.write]
    /\ classified' = [classified EXCEPT ![s] = @ + 1]
    /\ batch_num' = [batch_num EXCEPT ![s] = w.batch_num]
    /\ in_current_batch' = [in_current_batch EXCEPT ![s] = w.in_batch]
    /\ f' = [f EXCEPT ![s] = w.f]
    /\ files' = [files EXCEPT ![s] = w.files]
    /\ IF w.raised
       THEN \* an exception that is not an IOError: except Exception, finally
            /\ exit_path' = "summary"
            /\ pgn_file' = "closed"
            /\ engine' = QuitEngine(engine)
            /\ open_handles' =
                 FinallyHandles(f', [open_handles EXCEPT ![s] = w.handles])
            /\ summary' = PrintSummary(processed_puzzles_count', classified',
                                       batch_num', error_puzzles_count')
            /\ pc' = "returned"
       ELSE /\ open_handles' = [open_handles EXCEPT ![s] = w.handles]
            /\ UNCHANGED <<pc, exit_path, engine, pgn_file, summary>>

\* one iteration of `while True:` on a game that read_game returned
ProcessGame(fen, setup, mainline, a, o_open, o_write) ==
    /\ pc = "loop"
    /\ processed_puzzles_count < MaxRecords
    /\ processed_puzzles_count' = processed_puzzles_count + 1
    /\ IF setup = "1" /\ Falsy(fen)
       THEN Skip([NoRecord EXCEPT !.fen = fen, !.result = "skip_setup_no_fen"])
       ELSE IF Falsy(fen)
       THEN Skip([NoRecord EXCEPT !.fen = fen, !.result = "skip_no_fen"])
       ELSE IF mainline = <<>>
       THEN Skip([NoRecord EXCEPT !.fen = fen, !.result = "skip_no_solution"])
       ELSE LET solution_move_object == mainline[1]
                maia_top_move == get_maia_top_move(a)
                rec == [NoRecord EXCEPT !.fen = fen,
                                        !.solution = solution_move_object,
                                        !.info = a.kind,
                                        !.maia_top_move = maia_top_move,
                                        !.queries = 1]
            IN  IF Falsy(maia_top_move)
                THEN Skip([rec EXCEPT !.result = "skip_no_maia_move"])
                ELSE IF SameMove(solution_move_object, maia_top_move)
                THEN Classify(easy_puzzles_file,
                              [rec EXCEPT !.result = "easy"], o_open, o_write)
                ELSE Classify(hard_puzzles_file,
                              [rec EXCEPT !.result = "hard"], o_open, o_write)

\* the inputs the code does not read on a path are fixed
NotRead == [kind |-> "raise", pv |-> <<>>]
WithFen == {v \in FenValues : ~Falsy(v)}
Answers == {a \in AnalysisOutcomes : ~Falsy(get_maia_top_move(a))}

\* a record without a usable FEN tag
GameWithoutFen ==
    \E fen \in FenValues \ WithFen, setup \in SetUpValues :
        ProcessGame(fen, setup, <<>>, NotRead, "ok", "ok")

\* a record with a FEN tag and no move
GameWithoutMoves ==
    \E fen \in WithFen, setup \in SetUpValues :
        ProcessGame(fen, setup, <<>>, NotRead, "ok", "ok")

\* a record with a FEN tag and a mainline for which get_maia_top_move
\* gives no move
GameWithoutAnswer ==
    \E fen \in WithFen, setup \in SetUpValues, mainline \in Mainlines \ {<<>>},
       a \in AnalysisOutcomes \ Answers :
        ProcessGame(fen, setup, mainline, a, "ok", "ok")

\* a record that is classified, whatever open() and write() do
GameAnswered ==
    \E fen \in WithFen, setup \in SetUpValues, mainline \in Mainlines \ {<<>>},
       a \in Answers, o_open \in {"ok", "ioerror"},
       o_write \in {"ok", "ioerror", "exc"} :
        ProcessGame(fen, setup, mainline, a, o_open, o_write)

Next ==
    \/ InitEngineOk
    \/ InitEngineFails
    \/ OpenInputOk
    \/ OpenInputFails
    \/ ReadGameEnds
    \/ GameWithoutFen
    \/ GameWithoutMoves
    \/ GameWithoutAnswer
    \/ GameAnswered

Spec == Init /\ [][Next]_vars

(* ---------------- types ---------------- *)
TypeOK ==
    /\ pc \in {"init", "open", "loop", "returned"}
    /\ engine \in {None, "running", "quit"}
    /\ processed_puzzles_count \in 0..MaxRecords
    /\ \A s \in Streams : f[s] \in 0..batch_num[s]

(* ---------------- what the batch files hold ---------------- *)
RECURSIVE SumOver(_, _)
SumOver(fs, D) ==
    IF D = {} THEN 0
    ELSE LET k == CHOOSE x \in D : TRUE IN fs[k] + SumOver(fs, D \ {k})

\* the number of puzzles in the batch files of one stream
Written(fs) == SumOver(fs, DOMAIN fs)

\* the highest-numbered batch file of a stream
LastFile(fs) == CHOOSE k \in DOMAIN fs : \A j \in DOMAIN fs : j <= k

Other(s) == IF s = easy_puzzles_file THEN hard_puzzles_file ELSE easy_puzzles_file

\* the step processes one record of the input
ReadsRecord == processed_puzzles_count' = processed_puzzles_count + 1

(* ---------------- C1 ---------------- *)
\* C1: a record with a FEN tag, a non-empty mainline and a top move from the
\* engine (a value of maia_top_move that the code takes as a move) is
\* classified easy if and only if its first mainline move equals the top
\* move, and hard otherwise: it gets exactly one of the two classifications.
C1_EasyIffSolutionIsTopMove ==
    (~Falsy(cur.fen) /\ cur.solution # None /\ ~Falsy(cur.maia_top_move)) =>
        /\ cur.result \in {"easy", "hard"}
        /\ (cur.result = "easy") <=> (cur.solution = cur.maia_top_move)
        /\ (cur.result = "hard") <=> (cur.solution # cur.maia_top_move)

C1_Witness ==
    /\ cur.result = "hard"
    /\ cur.solution # cur.maia_top_move
    /\ classified[easy_puzzles_file] >= 1
    /\ classified[hard_puzzles_file] >= 1

(* ---------------- C2 ---------------- *)
\* C2 as stated: the number of puzzles counted as easy (hard) equals the
\* number written to the easy (hard) batch files, whatever open() and
\* write() do.
C2_CountedEqualsWritten ==
    \A s \in Streams : Written(files[s]) = classified[s]

\* an open() or a write() for the current record failed
IOFailed(c) == c.open = "ioerror" \/ c.write \in {"ioerror", "exc"}

\* C2 amended: a classified puzzle is appended to a batch file of its own
\* class exactly once when opening the batch file and writing to it succeed,
\* and not at all when one of them fails; it is never written to a batch
\* file of the other class; so the number written never exceeds the number
\* counted.
C2_WrittenOnceUnlessIOFails ==
    /\ [](\A s \in Streams : Written(files[s]) <= classified[s])
    /\ [][\A s \in Streams :
            classified'[s] = classified[s] + 1 =>
               /\ ReadsRecord
               /\ Written(files'[s]) =
                     Written(files[s]) + (IF IOFailed(cur') THEN 0 ELSE 1)
               /\ files'[Other(s)] = files[Other(s)]
               /\ classified'[Other(s)] = classified[Other(s)]]_vars

C2_Witness ==
    /\ cur.result = "easy"
    /\ cur.write = "ok"
    /\ Written(files[easy_puzzles_file]) = classified[easy_puzzles_file]
    /\ Written(files[hard_puzzles_file]) < classified[hard_puzzles_file]

(* ---------------- C3 ---------------- *)
\* C3: no batch file ever holds more than PUZZLES_PER_BATCH puzzles.
C3_AtMostBatchSize ==
    \A s \in Streams : \A k \in DOMAIN files[s] :
        files[s][k] <= PUZZLES_PER_BATCH

C3_Witness ==
    \E s \in Streams : \E k \in DOMAIN files[s] :
        /\ files[s][k] = PUZZLES_PER_BATCH
        /\ classified[s] > PUZZLES_PER_BATCH
        /\ f[s] # k

(* ---------------- C4 ---------------- *)
\* C4: when process_pgn_file has returned, on any path, the engine is not
\* left running and no batch file handle is open.
C4_ClosesEverything ==
    pc = "returned" =>
        /\ engine # "running"
        /\ \A s \in Streams : open_handles[s] = {}

C4_Witness ==
    /\ pc = "returned"
    /\ engine = "quit"
    /\ \A s \in Streams : f[s] # NoFile /\ files[s][f[s]] >= 1

(* ---------------- C5 ---------------- *)
\* the record has no FEN tag, or no move, or get_maia_top_move gave None
Unclassifiable(c) ==
    Falsy(c.fen) \/ c.solution = None \/ c.maia_top_move = None

\* C5: a record without FEN tag, without move, or for which
\* get_maia_top_move returns None (as it does when the analysis raises or
\* gives no principal variation) adds one to error_puzzles_count, is written
\* to neither stream, changes no batch number or counter, and the loop goes
\* on to the next record.
C5_SkipAndContinue ==
    /\ [](cur.info \in {"raise", "no_pv"} => cur.maia_top_move = None)
    /\ [][(ReadsRecord /\ Unclassifiable(cur')) =>
            /\ error_puzzles_count' = error_puzzles_count + 1
            /\ UNCHANGED <<classified, files, batch_num, in_current_batch, f,
                           open_handles>>
            /\ pc' = "loop"
            /\ cur'.result \in {"skip_setup_no_fen", "skip_no_fen",
                                "skip_no_solution", "skip_no_maia_move"}]_vars

C5_Witness ==
    /\ cur.result = "skip_no_maia_move"
    /\ cur.info = "raise"
    /\ error_puzzles_count = 1
    /\ pc = "loop"
    /\ classified[easy_puzzles_file] >= 1

(* ---------------- C6 ---------------- *)
\* C6: a batch file is closed and replaced only after exactly
\* PUZZLES_PER_BATCH puzzles were written to it, so every batch file of a
\* stream other than the last one opened holds exactly PUZZLES_PER_BATCH.
C6_RotateOnlyWhenFull ==
    /\ [](\A s \in Streams : \A k \in DOMAIN files[s] :
             k # LastFile(files[s]) => files[s][k] = PUZZLES_PER_BATCH)
    /\ [][\A s \in Streams :
            (f[s] # NoFile /\ f'[s] # f[s]) =>
               /\ files[s][f[s]] = PUZZLES_PER_BATCH
               /\ files'[s][f[s]] = PUZZLES_PER_BATCH]_vars

C6_Witness ==
    /\ pc = "returned"
    /\ \E s \in Streams : Cardinality(DOMAIN files[s]) >= 2

(* ---------------- C7 ---------------- *)
\* C7: when the summary is printed, the batch files created for a stream are
\* exactly those numbered 1..easy_batch_num (1..hard_batch_num), also when
\* an open() of a batch file failed.
C7_SummaryCountsFilesCreated ==
    summary # <<>> =>
        \A s \in Streams : DOMAIN files[s] = 1..summary[1].batches[s]

(* ---------------- C8 ---------------- *)
\* C8: if the engine initialisation fails, the function returns without
\* opening the input file, without querying the engine and without creating
\* a batch file.
C8_InitFailureDoesNothing ==
    exit_path = "init_error" =>
        /\ pc = "returned"
        /\ pgn_file = "unopened"
        /\ processed_puzzles_count = 0
        /\ cur = NoRecord
        /\ \A s \in Streams : DOMAIN files[s] = {} /\ batch_num[s] = 0

C8_Witness ==
    /\ exit_path = "init_error"
    /\ engine = "quit"
    /\ pc = "returned"

(* ---------------- C9 ---------------- *)
\* C9: the input is read once, in order, the engine is queried at most once
\* per record, and a batch file changes only by the record just read being
\* appended to the highest-numbered batch file of its stream (a new batch
\* file starts empty and no other file is touched): read in increasing batch
\* number, the puzzles of a stream are in input order.
C9_SinglePassInInputOrder ==
    [][/\ processed_puzzles_count' \in
            {processed_puzzles_count, processed_puzzles_count + 1}
       /\ cur'.queries <= 1
       /\ (cur' # cur => ReadsRecord)
       /\ \A s \in Streams :
            files'[s] # files[s] =>
               /\ ReadsRecord
               /\ classified'[s] = classified[s] + 1
               /\ DOMAIN files[s] \subseteq DOMAIN files'[s]
               /\ LET k == LastFile(files'[s])
                      before == IF k \in DOMAIN files[s] THEN files[s][k] ELSE 0
                  IN  /\ \A j \in DOMAIN files[s] :
                            (j # k => files'[s][j] = files[s][j]) /\ j <= k
                      /\ files'[s][k] \in {before, before + 1}]_vars

C9_Witness ==
    /\ \E s \in Streams : Cardinality(DOMAIN files[s]) >= 2
    /\ cur.queries = 1
    /\ processed_puzzles_count = MaxRecords

====
